---- MODULE Spec2Model ----
(***************************************************************************)
(* Model of DB2Handler (mindsdb/integrations/handlers/db2_handler).        *)
(* The handler is a single-threaded object: every public method is one     *)
(* atomic step.  The vendor driver (ibm_db_dbi) is the environment: it may *)
(* succeed or fail at opening a connection, at executing a statement and   *)
(* at the metadata calls.  Each step records in `call` what the method was *)
(* given, what the driver did, what the method returned or raised, and the *)
(* driver events it caused.                                                *)
(***************************************************************************)
EXTENDS Integers, Sequences, FiniteSets, TLC

\* ---- bounds ----
MaxOpens == 2       \* driver connections the driver hands out in one run
MaxLen == 1         \* characters in a native query text
MaxCols == 2        \* column descriptors of a result set
MaxRows == 2        \* rows of a result set
MaxItems == 1      \* entries returned by a metadata call

\* ---- values ----
None == 0
NoText == <<>>
NoMsg == ""

RequiredKeys == {"host", "user", "password", "database"}
OptionalKeys == {"port", "schema"}
AllKeys == RequiredKeys \cup OptionalKeys

\* connection_data is Optional[Dict]: None, or a mapping seen through its keys.
NoConfig == [isNone |-> TRUE, keys |-> {}]
Config(K) == [isNone |-> FALSE, keys |-> K]
Configs == {NoConfig} \cup {Config(K) : K \in SUBSET AllKeys}

TypeErrorMsg == "argument of type 'NoneType' is not iterable"
ValueErrorMsg == "Required parameters (host, user, password, database) must be provided."
TableNameErrorMsg == "Invalid table name provided."
AttributeErrorMsg == "'NoneType' object has no attribute"
ClosedConnMsg == "Connection is no longer active."
DriverMessages == {"SQL0204N", "SQL30081N"}

Chars == {"a", "A"}
Cells == {"x", "y"}
ColumnList == <<"ID", "NAME", "CITY", "ZIP">>
ColumnNames == {ColumnList[i] : i \in 1..Len(ColumnList)}

SeqsUpTo(S, n) == UNION {[1..k -> S] : k \in 0..n}
Texts == [1..MaxLen -> Chars]

VARIABLES connection_data, connection, is_connected,
          opened, openSet, closeCount, alive, call

vars == <<connection_data, connection, is_connected,
          opened, openSet, closeCount, alive, call>>

\* ---- driver events ----
Ev(e, h, t) == [ev |-> e, h |-> h, text |-> t]

CountEv(evs, e) == Cardinality({i \in 1..Len(evs) : evs[i].ev = e})

\* ---- results ----
NoResult ==
    [kind |-> "None", handle |-> None, success |-> FALSE, type |-> "",
     has_data |-> FALSE, columns |-> <<>>, rows |-> <<>>, error_message |-> NoMsg]

ConnResult(h) ==
    IF h = None THEN NoResult ELSE [NoResult EXCEPT !.kind = "Connection", !.handle = h]

StatusResponse(ok, msg) ==
    [NoResult EXCEPT !.kind = "Status", !.success = ok, !.error_message = msg]

TableResponse(cols, rows) ==
    [NoResult EXCEPT !.kind = "Response", !.type = "TABLE", !.has_data = TRUE,
                     !.columns = cols, !.rows = rows]

OkResponse == [NoResult EXCEPT !.kind = "Response", !.type = "OK"]

ErrorResponse(msg) ==
    [NoResult EXCEPT !.kind = "Response", !.type = "ERROR", !.error_message = msg]

\* ---- driver outcomes ----
NoOpen == [called |-> FALSE, ok |-> FALSE, msg |-> NoMsg]
OpenOk == [called |-> TRUE, ok |-> TRUE, msg |-> NoMsg]
OpenFail(m) == [called |-> TRUE, ok |-> FALSE, msg |-> m]
OpenOutcomes(n) ==
    {OpenFail(m) : m \in DriverMessages} \cup (IF n < MaxOpens THEN {OpenOk} ELSE {})

\* The result sets are the selections of the first k columns of one table.
Descriptor(name) == <<name, "INT">>
Descriptions == {[i \in 1..k |-> Descriptor(ColumnList[i])] : k \in 1..MaxCols}
RowsFor(d) == SeqsUpTo({[i \in 1..Len(d) |-> c] : c \in Cells}, MaxRows)

NoExec ==
    [called |-> FALSE, ok |-> FALSE, msg |-> NoMsg, result_set_produced |-> FALSE,
     description |-> <<>>, rows |-> <<>>]
ExecFail(m) ==
    [called |-> TRUE, ok |-> FALSE, msg |-> m, result_set_produced |-> FALSE,
     description |-> <<>>, rows |-> <<>>]
ExecNoResult ==
    [called |-> TRUE, ok |-> TRUE, msg |-> NoMsg, result_set_produced |-> FALSE,
     description |-> <<>>, rows |-> <<>>]
ExecResult(d, r) ==
    [called |-> TRUE, ok |-> TRUE, msg |-> NoMsg, result_set_produced |-> TRUE,
     description |-> d, rows |-> r]
ExecOutcomes ==
    {ExecFail(m) : m \in DriverMessages} \cup {ExecNoResult}
        \cup UNION {{ExecResult(d, r) : r \in RowsFor(d)} : d \in Descriptions}

TableEntries ==
    {[TABLE_NAME |-> "T", TABLE_SCHEM |-> "S", TABLE_TYPE |-> t] : t \in {"TABLE", "VIEW"}}
ColumnEntries == {[COLUMN_NAME |-> c] : c \in ColumnNames}
NoMeta == [called |-> FALSE, ok |-> FALSE, msg |-> NoMsg, items |-> <<>>]
MetaOk(items) == [called |-> TRUE, ok |-> TRUE, msg |-> NoMsg, items |-> items]
MetaFail(m) == [called |-> TRUE, ok |-> FALSE, msg |-> m, items |-> <<>>]
MetaOutcomes(entries) ==
    {MetaFail(m) : m \in DriverMessages} \cup {MetaOk(i) : i \in SeqsUpTo(entries, MaxItems)}

\* ---- the handler's and the driver's state as one value ----
State ==
    [connection |-> connection, is_connected |-> is_connected,
     opened |-> opened, openSet |-> openSet, closeCount |-> closeCount,
     events |-> <<>>]

Ret(s, res) == [s |-> s, outcome |-> "return", result |-> res, msg |-> NoMsg]
Raise(s, exc, m) == [s |-> s, outcome |-> exc, result |-> NoResult, msg |-> m]

\* ---- connect ----
HasRequired(cd) == \A key \in RequiredKeys : key \in cd.keys

connection_string(cd) ==
    <<"DRIVER", "DATABASE", "HOST", "PROTOCOL", "UID", "PWD">>
        \o (IF "port" \in cd.keys THEN <<"PORT">> ELSE <<>>)
        \o (IF "schema" \in cd.keys THEN <<"CURRENTSCHEMA">> ELSE <<>>)

AlreadyConnected_never(s) == FALSE
AlreadyConnected(s) == s.is_connected

pconnect(s, cd, open) ==
    IF open.ok
    THEN LET h == s.opened + 1
         IN Ret([s EXCEPT !.connection = h, !.is_connected = TRUE,
                          !.opened = h, !.openSet = @ \cup {h},
                          !.events = Append(@, Ev("pconnect", h, connection_string(cd)))],
                ConnResult(h))
    ELSE Ret([s EXCEPT !.events = Append(@, Ev("pconnect_failed", None, connection_string(cd)))],
             NoResult)

connect(s, cd, open) ==
    IF AlreadyConnected(s) THEN Ret(s, ConnResult(s.connection))
    ELSE IF cd.isNone THEN Raise(s, "TypeError", TypeErrorMsg)
    ELSE IF ~HasRequired(cd) THEN Raise(s, "ValueError", ValueErrorMsg)
    ELSE pconnect(s, cd, open)

\* ---- disconnect ----
DisconnectIsNoop_handle(s) == s.connection = None
DisconnectIsNoop(s) == ~s.is_connected

close(s) ==
    LET h == s.connection
    IN [s EXCEPT !.openSet = @ \ {h}, !.closeCount[h] = @ + 1,
                 !.events = Append(@, Ev("close", h, NoText))]

disconnect_keepFlag(s) ==
    IF DisconnectIsNoop(s) THEN Ret(s, NoResult)
    ELSE IF s.connection = None THEN Raise(s, "AttributeError", AttributeErrorMsg)
    ELSE Ret(close(s), NoResult)
disconnect(s) ==
    IF DisconnectIsNoop(s) THEN Ret(s, NoResult)
    ELSE IF s.connection = None THEN Raise(s, "AttributeError", AttributeErrorMsg)
    ELSE Ret([close(s) EXCEPT !.is_connected = FALSE], NoResult)

\* ---- check_connection ----
need_to_close_check_never(s) == FALSE
need_to_close_check(s) == s.is_connected = FALSE

check_connection(s, cd, open) ==
    LET need_to_close == need_to_close_check(s)
        c == connect(s, cd, open)
        success == c.outcome = "return"
        error_message == IF success THEN NoMsg ELSE c.msg
        d == IF success /\ need_to_close THEN disconnect(c.s) ELSE Ret(c.s, NoResult)
        s2 == IF ~success /\ d.s.is_connected
              THEN [d.s EXCEPT !.is_connected = FALSE] ELSE d.s
    IN IF ~success /\ cd.isNone
       THEN Raise(s2, "AttributeError", AttributeErrorMsg)
       ELSE IF d.outcome = "return"
       THEN Ret(s2, StatusResponse(success, error_message))
       ELSE Raise(s2, d.outcome, d.msg)

\* ---- native_query ----
UpperChar(c) == IF c = "a" THEN "A" ELSE c
upper(text) == [i \in 1..Len(text) |-> UpperChar(text[i])]

need_to_close_query_never(s) == FALSE
need_to_close_query(s) == s.is_connected = FALSE

columns_typeCode(description) == [i \in 1..Len(description) |-> description[i][2]]
columns(description) == [i \in 1..Len(description) |-> description[i][1]]

on_success_noCommit(s, exec) ==
    [s |-> s,
     response |-> IF exec.result_set_produced
                  THEN TableResponse(columns(exec.description), exec.rows)
                  ELSE OkResponse]
on_success(s, exec) ==
    [s |-> [s EXCEPT !.events = Append(@, Ev("commit", s.connection, NoText))],
     response |-> IF exec.result_set_produced
                  THEN TableResponse(columns(exec.description), exec.rows)
                  ELSE OkResponse]

on_failure_noRollback(s, exec) ==
    [s |-> s, response |-> ErrorResponse(exec.msg)]
on_failure(s, exec) ==
    [s |-> [s EXCEPT !.events = Append(@, Ev("rollback", s.connection, NoText))],
     response |-> ErrorResponse(exec.msg)]

execute(s, conn, text, exec) ==
    LET s1 == [s EXCEPT !.events = Append(@, Ev("execute", conn, text))]
    IN IF exec.ok THEN on_success(s1, exec) ELSE on_failure(s1, exec)

native_query_earlyClose(s, cd, text, open, exec) ==
    LET need_to_close == need_to_close_query(s)
        query_text == upper(text)
        c == connect(s, cd, open)
    IN IF c.outcome # "return" THEN c
       ELSE IF c.result.kind = "None"
            THEN Raise(c.s, "AttributeError", AttributeErrorMsg)
       ELSE LET d == IF need_to_close THEN disconnect(c.s) ELSE Ret(c.s, NoResult)
                e == execute(d.s, c.result.handle, query_text, exec)
            IN IF d.outcome = "return" THEN Ret(e.s, e.response) ELSE d
native_query(s, cd, text, open, exec) ==
    LET need_to_close == need_to_close_query(s)
        query_text == upper(text)
        c == connect(s, cd, open)
    IN IF c.outcome # "return" THEN c
       ELSE IF c.result.kind = "None"
            THEN Raise(c.s, "AttributeError", AttributeErrorMsg)
       ELSE LET e == execute(c.s, c.result.handle, query_text, exec)
                d == IF need_to_close THEN disconnect(e.s) ELSE Ret(e.s, NoResult)
            IN IF d.outcome = "return" THEN Ret(d.s, e.response) ELSE d

\* ---- query ----
ASTNodes == Chars \X {"a"}
get_string(ast) == <<ast[1], " ", ast[2]>>

query_unrendered(s, cd, ast, open, exec) == native_query(s, cd, ast, open, exec)
query(s, cd, ast, open, exec) == native_query(s, cd, get_string(ast), open, exec)

\* ---- get_tables / get_columns ----
\* A metadata call on the handle: None has no such attribute, a closed
\* connection is refused by the driver, an open one answers as the driver
\* decides.
metadata(s, name, meta) ==
    IF s.connection = None THEN Raise(s, "AttributeError", AttributeErrorMsg)
    ELSE IF s.connection \notin s.openSet THEN Raise(s, "DriverError", ClosedConnMsg)
    ELSE LET s1 == [s EXCEPT !.events = Append(@, Ev(name, s.connection, NoText))]
         IN IF meta.ok THEN Ret(s1, NoResult)
            ELSE Raise(s1, "DriverError", meta.msg)

tables_frame(items) ==
    TableResponse(IF items = <<>> THEN <<>>
                  ELSE <<"TABLE_NAME", "TABLE_SCHEMA", "TABLE_TYPE">>,
                  [i \in 1..Len(items) |->
                      [TABLE_NAME |-> items[i].TABLE_NAME,
                       TABLE_SCHEMA |-> items[i].TABLE_SCHEM,
                       TABLE_TYPE |-> items[i].TABLE_TYPE]])

get_tables(s, cd, open, meta) ==
    LET c == connect(s, cd, open)
    IN IF c.outcome # "return" THEN c
       ELSE LET r == metadata(c.s, "tables", meta)
            IN IF r.outcome = "return" THEN Ret(r.s, tables_frame(meta.items)) ELSE r

TableNameArgs == {<<"str", "">>, <<"str", "T">>, <<"int", "5">>, <<"NoneType", "">>}
valid_table_name_truthy(table_name) == table_name[2] # ""
valid_table_name(table_name) == table_name[2] # "" /\ table_name[1] = "str"

columns_frame(items) ==
    TableResponse(<<"COLUMN_NAME">>,
                  [i \in 1..Len(items) |-> <<items[i].COLUMN_NAME>>])

get_columns(s, cd, table_name, open, meta) ==
    IF ~valid_table_name(table_name) THEN Raise(s, "ValueError", TableNameErrorMsg)
    ELSE LET c == connect(s, cd, open)
         IN IF c.outcome # "return" THEN c
            ELSE LET r == metadata(c.s, "columns", meta)
                 IN IF r.outcome = "return" THEN Ret(r.s, columns_frame(meta.items)) ELSE r

\* ---- __del__ ----
del_noDisconnect(s) == Ret(s, NoResult)
del(s) == IF s.is_connected THEN disconnect(s) ELSE Ret(s, NoResult)

\* ---- steps ----
\* A driver outcome is drawn exactly when the driver is called.
HasEv(evs, names) == \E i \in 1..Len(evs) : evs[i].ev \in names
DrawnOpen(open) ==
    open.called = HasEv(connect(State, connection_data, open).s.events,
                        {"pconnect", "pconnect_failed"})
Drawn(r, exec, meta) ==
    /\ exec.called = HasEv(r.s.events, {"execute"})
    /\ meta.called = HasEv(r.s.events, {"tables", "columns"})

Record(op, arg, open, exec, meta, r) ==
    /\ Drawn(r, exec, meta)
    /\ open.called = HasEv(r.s.events, {"pconnect", "pconnect_failed"})
    /\ connection' = r.s.connection
    /\ is_connected' = r.s.is_connected
    /\ opened' = r.s.opened
    /\ openSet' = r.s.openSet
    /\ closeCount' = r.s.closeCount
    /\ call' = [op |-> op, arg |-> arg, open |-> open, exec |-> exec, meta |-> meta,
                pre_is_connected |-> is_connected, pre_connection |-> connection,
                pre_openSet |-> openSet, pre_opened |-> opened,
                pre_closeCount |-> closeCount,
                outcome |-> r.outcome, result |-> r.result, msg |-> r.msg,
                events |-> r.s.events]
    /\ alive' = (op # "__del__")
    /\ UNCHANGED connection_data

Init ==
    /\ connection_data \in Configs
    /\ connection = None
    /\ is_connected = FALSE
    /\ opened = 0
    /\ openSet = {}
    /\ closeCount = [h \in 1..MaxOpens |-> 0]
    /\ alive = TRUE
    /\ call = [op |-> "__init__", arg |-> NoText, open |-> NoOpen, exec |-> NoExec,
               meta |-> NoMeta,
               pre_is_connected |-> FALSE, pre_connection |-> None,
               pre_openSet |-> {}, pre_opened |-> 0,
               pre_closeCount |-> [h \in 1..MaxOpens |-> 0],
               outcome |-> "return", result |-> NoResult, msg |-> NoMsg,
               events |-> <<>>]

Connect ==
    /\ alive
    /\ \E open \in {NoOpen} \cup OpenOutcomes(opened) :
          /\ DrawnOpen(open)
          /\ Record("connect", NoText, open, NoExec, NoMeta,
                    connect(State, connection_data, open))

Disconnect ==
    /\ alive
    /\ Record("disconnect", NoText, NoOpen, NoExec, NoMeta, disconnect(State))

CheckConnection ==
    /\ alive
    /\ \E open \in {NoOpen} \cup OpenOutcomes(opened) :
          /\ DrawnOpen(open)
          /\ Record("check_connection", NoText, open, NoExec, NoMeta,
                    check_connection(State, connection_data, open))

NativeQuery ==
    /\ alive
    /\ \E open \in {NoOpen} \cup OpenOutcomes(opened) :
          /\ DrawnOpen(open)
          /\ \E text \in Texts, exec \in {NoExec} \cup ExecOutcomes :
                Record("native_query", text, open, exec, NoMeta,
                       native_query(State, connection_data, text, open, exec))

Query ==
    /\ alive
    /\ \E open \in {NoOpen} \cup OpenOutcomes(opened) :
          /\ DrawnOpen(open)
          /\ \E ast \in ASTNodes, exec \in {NoExec} \cup ExecOutcomes :
                Record("query", ast, open, exec, NoMeta,
                       query(State, connection_data, ast, open, exec))

GetTables ==
    /\ alive
    /\ \E open \in {NoOpen} \cup OpenOutcomes(opened) :
          /\ DrawnOpen(open)
          /\ \E meta \in {NoMeta} \cup MetaOutcomes(TableEntries) :
                Record("get_tables", NoText, open, NoExec, meta,
                       get_tables(State, connection_data, open, meta))

GetColumns ==
    /\ alive
    /\ \E table_name \in TableNameArgs, open \in {NoOpen} \cup OpenOutcomes(opened),
          meta \in {NoMeta} \cup MetaOutcomes(ColumnEntries) :
          Record("get_columns", table_name, open, NoExec, meta,
                 get_columns(State, connection_data, table_name, open, meta))

Del ==
    /\ alive
    /\ Record("__del__", NoText, NoOpen, NoExec, NoMeta, del(State))

Next ==
    \/ Connect
    \/ Disconnect
    \/ CheckConnection
    \/ NativeQuery
    \/ Query
    \/ GetTables
    \/ GetColumns
    \/ Del

Spec == Init /\ [][Next]_vars

\* ---- properties ----
Opened(evs) == {evs[i].h : i \in {j \in 1..Len(evs) : evs[j].ev = "pconnect"}}
ConfigComplete == ~connection_data.isNone /\ RequiredKeys \subseteq connection_data.keys
StateUnchanged ==
    /\ is_connected = call.pre_is_connected
    /\ connection = call.pre_connection
    /\ openSet = call.pre_openSet

\* C1: connect on a disconnected handler whose configuration lacks one of
\* host, user, password, database raises ValueError, makes no driver call and
\* leaves is_connected and the connection handle as they were.
C1_MissingConfigRaises ==
    (call.op = "connect" /\ ~call.pre_is_connected /\ ~ConfigComplete)
        => /\ call.outcome = "ValueError"
           /\ call.msg = ValueErrorMsg
           /\ call.events = <<>>
           /\ StateUnchanged

\* C2: a connect that yields a connection leaves is_connected true; after
\* disconnect it is false; disconnect on a disconnected handler makes no
\* driver call and changes nothing; no driver connection is closed twice.
C2_ConnectDisconnectFlag ==
    /\ (call.op = "connect" /\ call.outcome = "return" /\ call.result.kind = "Connection")
          => is_connected
    /\ call.op = "disconnect" => ~is_connected
    /\ (call.op = "disconnect" /\ ~call.pre_is_connected)
          => (call.events = <<>> /\ StateUnchanged)
    /\ \A h \in DOMAIN closeCount : closeCount[h] <= 1

C2_Witness ==
    /\ call.op = "disconnect"
    /\ ~call.pre_is_connected
    /\ connection # None
    /\ closeCount[connection] = 1
    /\ call.events = <<>>

\* C3: check_connection leaves is_connected as it found it, whatever the
\* outcome of the attempt; a handler disconnected before the check is
\* disconnected after it and every connection opened for the check is closed.
C3_CheckRestoresState ==
    call.op = "check_connection"
        => /\ is_connected = call.pre_is_connected
           /\ ~call.pre_is_connected
                 => \A h \in Opened(call.events) : h \notin openSet /\ closeCount[h] = 1
           /\ call.pre_is_connected => (call.events = <<>> /\ StateUnchanged)

C3_Witness ==
    /\ call.op = "check_connection"
    /\ ~call.pre_is_connected
    /\ Opened(call.events) # {}
    /\ ~is_connected
    /\ openSet = {}

\* C4: check_connection reports success exactly when a driver connection was
\* open when connect returned, and a failed attempt (missing configuration or
\* a driver exception while opening) gives success = false with the message.
C4_SuccessIffConnected ==
    call.op = "check_connection"
        => /\ call.outcome = "return"
           /\ call.result.success <=> (call.pre_is_connected \/ call.open.ok)
           /\ (~call.pre_is_connected /\ ~ConfigComplete)
                 => (~call.result.success /\ call.result.error_message = ValueErrorMsg)
           /\ (call.open.called /\ ~call.open.ok)
                 => (~call.result.success /\ call.result.error_message = call.open.msg)

\* C5: a statement that fails in the driver gives an ERROR response with the
\* driver's message, exactly one rollback and no commit in that call.
C5_FailureRollsBack ==
    (call.op = "native_query" /\ call.exec.called /\ ~call.exec.ok)
        => /\ call.outcome = "return"
           /\ call.result.type = "ERROR"
           /\ call.result.error_message = call.exec.msg
           /\ CountEv(call.events, "rollback") = 1
           /\ CountEv(call.events, "commit") = 0

C5_Witness ==
    /\ call.op = "native_query"
    /\ call.exec.called
    /\ ~call.exec.ok
    /\ call.result.type = "ERROR"
    /\ CountEv(call.events, "rollback") = 1

\* C6: a statement that succeeds without a result set gives an OK response
\* with no data, exactly one commit and no rollback in that call.
C6_NoResultCommits ==
    (call.op = "native_query" /\ call.exec.ok /\ ~call.exec.result_set_produced)
        => /\ call.outcome = "return"
           /\ call.result.type = "OK"
           /\ ~call.result.has_data
           /\ call.result.rows = <<>> /\ call.result.columns = <<>>
           /\ CountEv(call.events, "commit") = 1
           /\ CountEv(call.events, "rollback") = 0

C6_Witness ==
    /\ call.op = "native_query"
    /\ call.exec.ok
    /\ ~call.exec.result_set_produced
    /\ call.result.type = "OK"
    /\ CountEv(call.events, "commit") = 1

\* C7: native_query leaves is_connected as it found it for every outcome; a
\* connection it opened for the call is closed on return, and a connection
\* that was already open stays open and stays the handler's connection.
C7_QueryRestoresState ==
    call.op = "native_query"
        => /\ is_connected = call.pre_is_connected
           /\ ~call.pre_is_connected
                 => \A h \in Opened(call.events) : h \notin openSet /\ closeCount[h] = 1
           /\ call.pre_is_connected
                 => /\ StateUnchanged
                    /\ connection \in openSet
                    /\ CountEv(call.events, "close") = 0

C7_Witness ==
    /\ call.op = "native_query"
    /\ ~call.pre_is_connected
    /\ Opened(call.events) # {}
    /\ call.exec.called
    /\ ~call.exec.ok
    /\ ~is_connected
    /\ openSet = {}

C7_WitnessKeptOpen ==
    /\ call.op = "native_query"
    /\ call.pre_is_connected
    /\ call.exec.called
    /\ is_connected

\* C8: native_query, query and check_connection never raise: every failure
\* (missing configuration, driver failure at opening or at executing) comes
\* back as a status or response that describes the failure.
C8_NoExceptionEscapes ==
    call.op \in {"native_query", "query", "check_connection"}
        => /\ call.outcome = "return"
           /\ ((~call.pre_is_connected /\ ~ConfigComplete)
                  \/ (call.open.called /\ ~call.open.ok)
                  \/ (call.exec.called /\ ~call.exec.ok))
                 => IF call.op = "check_connection"
                    THEN ~call.result.success
                    ELSE call.result.type = "ERROR"

\* C9: a statement that succeeds with a result set gives a TABLE response
\* whose column names are the first items of the cursor's descriptors, in
\* order, and whose rows are the driver's rows, in order; it is committed.
C9_TableMatchesDriver ==
    (call.op = "native_query" /\ call.exec.ok /\ call.exec.result_set_produced)
        => /\ call.outcome = "return"
           /\ call.result.type = "TABLE"
           /\ Len(call.result.columns) = Len(call.exec.description)
           /\ \A i \in 1..Len(call.exec.description) :
                 call.result.columns[i] = call.exec.description[i][1]
           /\ call.result.rows = call.exec.rows
           /\ CountEv(call.events, "commit") = 1
           /\ CountEv(call.events, "rollback") = 0

C9_Witness ==
    /\ call.op = "native_query"
    /\ call.exec.ok
    /\ call.exec.result_set_produced
    /\ Len(call.exec.description) = 2
    /\ call.exec.description[1][1] # call.exec.description[2][1]
    /\ Len(call.exec.rows) = 2
    /\ call.exec.rows[1] # call.exec.rows[2]
    /\ call.result.type = "TABLE"

\* C10: connect on a connected handler returns the handle it already has,
\* makes no driver call and leaves is_connected and the handle unchanged.
C10_ConnectIdempotent ==
    (call.op = "connect" /\ call.pre_is_connected)
        => /\ call.outcome = "return"
           /\ call.result.kind = "Connection"
           /\ call.result.handle = call.pre_connection
           /\ call.events = <<>>
           /\ is_connected
           /\ StateUnchanged

C10_Witness ==
    /\ call.op = "connect"
    /\ call.pre_is_connected
    /\ call.result.handle = connection
    /\ connection \in openSet
    /\ opened = 1

\* C11: the statement text native_query hands to the driver cursor is,
\* character for character, the text the caller supplied.
C11_ExecutesGivenText ==
    (call.op = "native_query" /\ call.exec.called)
        => \A i \in 1..Len(call.events) :
              call.events[i].ev = "execute" => call.events[i].text = call.arg

\* C12: get_tables and get_columns called on a disconnected handler leave it
\* disconnected, and the connection opened for the call is closed on return.
C12_MetadataClosesItsConnection ==
    (call.op \in {"get_tables", "get_columns"} /\ ~call.pre_is_connected)
        => /\ ~is_connected
           /\ \A h \in Opened(call.events) : h \notin openSet

\* C13: a query call is the native_query call on the rendered text: from the
\* same starting state and with the same driver outcomes it gives the same
\* response or exception, the same driver events and the same state.
PreState ==
    [connection |-> call.pre_connection, is_connected |-> call.pre_is_connected,
     opened |-> call.pre_opened, openSet |-> call.pre_openSet,
     closeCount |-> call.pre_closeCount, events |-> <<>>]
C13_QueryIsNativeQueryOfRendered ==
    call.op = "query"
        => LET r == native_query(PreState, connection_data, get_string(call.arg),
                                 call.open, call.exec)
           IN /\ call.outcome = r.outcome
              /\ call.result = r.result
              /\ call.msg = r.msg
              /\ call.events = r.s.events
              /\ connection = r.s.connection
              /\ is_connected = r.s.is_connected
              /\ opened = r.s.opened
              /\ openSet = r.s.openSet
              /\ closeCount = r.s.closeCount

C13_Witness ==
    /\ call.op = "query"
    /\ call.arg = <<"a", "a">>
    /\ ~call.pre_is_connected
    /\ call.exec.called
    /\ call.exec.result_set_produced
    /\ \E i \in 1..Len(call.events) :
          call.events[i].ev = "execute" /\ call.events[i].text = <<"A", " ", "A">>
    /\ CountEv(call.events, "close") = 1

\* C14: after teardown (__del__) no driver connection the handler opened is
\* still open and is_connected is false; teardown of a disconnected handler
\* makes no driver call.
C14_TeardownCloses ==
    call.op = "__del__"
        => /\ ~alive
           /\ ~is_connected
           /\ openSet = {}
           /\ ~call.pre_is_connected => (call.events = <<>> /\ StateUnchanged)

C14_Witness ==
    /\ call.op = "__del__"
    /\ call.pre_is_connected
    /\ call.pre_openSet # {}
    /\ CountEv(call.events, "close") = 1
    /\ openSet = {}

\* C15: a connect that returns normally returns an open driver connection
\* and leaves is_connected true; when the driver fails to open the
\* connection, connect raises and is_connected stays false.
C15_ConnectReturnsOpenOrRaises ==
    call.op = "connect"
        => /\ call.outcome = "return"
              => /\ call.result.kind = "Connection"
                 /\ call.result.handle \in openSet
                 /\ is_connected
           /\ (call.open.called /\ ~call.open.ok)
              => (call.outcome # "return" /\ ~is_connected)

\* C16: in every reachable state is_connected holds exactly when the
\* handler's connection handle is an open driver connection, and at most one
\* driver connection opened by the handler is open.
C16_FlagMatchesHandle ==
    /\ is_connected <=> (connection # None /\ connection \in openSet)
    /\ Cardinality(openSet) <= 1

C16_Witness ==
    /\ is_connected
    /\ connection = 2
    /\ openSet = {2}
    /\ closeCount[1] = 1
    /\ call.op \in {"get_tables", "get_columns"}

\* C17: in one native_query call the driver sees execute, then exactly one
\* of commit or rollback, then close only if the connection was opened for
\* this call, all on the same handle; so commit and rollback never go to a
\* closed connection and the connection is never closed with the call's
\* transaction unfinished.  A call that never executes ends no transaction.
EvNames(evs) == [i \in 1..Len(evs) |-> evs[i].ev]
C17_ExecuteThenEndThenClose ==
    call.op = "native_query"
        => /\ call.exec.called
              => /\ \E end \in {"commit", "rollback"} :
                       EvNames(call.events) =
                           (IF call.pre_is_connected THEN <<>> ELSE <<"pconnect">>)
                               \o <<"execute", end>>
                               \o (IF call.pre_is_connected THEN <<>> ELSE <<"close">>)
                 /\ \A i \in 1..Len(call.events) : call.events[i].h = connection
                 /\ call.pre_is_connected => connection \in openSet
           /\ ~call.exec.called
              => /\ CountEv(call.events, "commit") = 0
                 /\ CountEv(call.events, "rollback") = 0
                 /\ CountEv(call.events, "close") = 0

C17_Witness ==
    /\ call.op = "native_query"
    /\ ~call.pre_is_connected
    /\ EvNames(call.events) = <<"pconnect", "execute", "commit", "close">>
    /\ connection \notin openSet

\* C18: get_columns with an empty or non-string table name raises ValueError
\* before any connection attempt: no driver call, and is_connected and the
\* connection handle are as before.
C18_BadTableNameRaises ==
    (call.op = "get_columns" /\ (call.arg[2] = "" \/ call.arg[1] # "str"))
        => /\ call.outcome = "ValueError"
           /\ call.msg = TableNameErrorMsg
           /\ call.events = <<>>
           /\ ~call.open.called
           /\ StateUnchanged

C18_Witness ==
    /\ call.op = "get_columns"
    /\ call.arg = <<"int", "5">>
    /\ ConfigComplete
    /\ ~call.pre_is_connected
    /\ call.outcome = "ValueError"
    /\ call.events = <<>>
====
